---- MODULE Spec2Model ----
(***************************************************************************)
(* Model of mrjob/tools/emr/audit_usage.py: print_report().                *)
(*                                                                         *)
(* Strings of the program (cluster names, usage values, labels) are        *)
(* sequences of one-character strings, so that the regular expression,     *)
(* float() and the string comparison of sorted() are computed character    *)
(* by character.  Hours are exact fixed-point numbers: an hour value h is  *)
(* the integer h * Scale.  Timestamps are drawn from a small table.        *)
(***************************************************************************)
EXTENDS Integers, Sequences, FiniteSets, TLC

VARIABLES
    provider,              \* what describe_all_job_flows() will return
    pc,                    \* position in print_report
    now,                   \* line 75
    job_flows,             \* line 76
    idx,                   \* position of the for loop of line 79
    job_flow_infos,        \* line 78
    total_hours,           \* line 136
    mr_job_name_to_hours,  \* line 148
    top_jobs,              \* the sorted items of line 151
    user_to_hours,         \* line 158
    top_users,             \* the sorted items of line 161
    top_job_flows,         \* line 168
    out,                   \* lines written to standard output
    err                    \* the exception that ended the run, if any

vars == << provider, pc, now, job_flows, idx, job_flow_infos, total_hours,
           mr_job_name_to_hours, top_jobs, user_to_hours, top_users,
           top_job_flows, out, err >>

(***************************************************************************)
(* Bounds                                                                  *)
(***************************************************************************)
MaxFlows == 3
MaxNameLen == 8

(***************************************************************************)
(* Characters and Python 2 str comparison                                  *)
(***************************************************************************)
\* the characters used, in increasing byte value
CharOrder ==
    << "\n", " ", "!", "(", ")", "-", ".",
       "0", "1", "2", "3", "4", "5", "6", "7", "8", "9", "_",
       "a", "b", "c", "d", "e", "f", "g", "h", "i", "j", "k", "l", "m",
       "n", "o", "p", "q", "r", "s", "t", "u", "v", "w", "x", "y", "z" >>

Ord(c) == CHOOSE i \in DOMAIN CharOrder : CharOrder[i] = c

Digits == {"0", "1", "2", "3", "4", "5", "6", "7", "8", "9"}

DigitVal(c) == Ord(c) - Ord("0")

\* str.__lt__: bytewise lexicographic order
StrLess(a, b) ==
    \E k \in 1..(Len(b)) :
        /\ \A m \in 1..(k - 1) : m <= Len(a) /\ a[m] = b[m]
        /\ \/ k = Len(a) + 1
           \/ k <= Len(a) /\ Ord(a[k]) < Ord(b[k])

\* Python values that may be None
NoneV == [isNone |-> TRUE, str |-> << >>]
Str(s) == [isNone |-> FALSE, str |-> s]

\* a variant of ObjLess: None sorts after every str
ObjLessNoneLast(x, y) ==
    IF y.isNone THEN ~x.isNone
    ELSE ~x.isNone /\ StrLess(x.str, y.str)

\* Python 2 ordering of None and str objects: None sorts before every str
ObjLess(x, y) ==
    IF x.isNone THEN ~y.isNone
    ELSE ~y.isNone /\ StrLess(x.str, y.str)

\* ordering of the sort keys (-hours, n): tuples compare item by item
KeyLess(k1, k2) ==
    \/ k1[1] < k2[1]
    \/ k1[1] = k2[1] /\ ObjLess(k1[2], k2[2])

(***************************************************************************)
(* sorted(): a stable sort of a sequence of <<key, item>> pairs            *)
(***************************************************************************)
RECURSIVE InsertStable(_, _)
InsertStable(s, p) ==
    IF s = << >> THEN << p >>
    ELSE IF KeyLess(p[1], s[Len(s)][1])
         THEN Append(InsertStable(SubSeq(s, 1, Len(s) - 1), p), s[Len(s)])
         ELSE Append(s, p)

RECURSIVE SortedPairs(_)
SortedPairs(s) ==
    IF s = << >> THEN << >>
    ELSE InsertStable(SortedPairs(SubSeq(s, 1, Len(s) - 1)), s[Len(s)])

Items(s) == [k \in DOMAIN s |-> s[k][2]]

(***************************************************************************)
(* JOB_FLOW_NAME_RE: any text, dot, any text, dot, digits, dot, digits,    *)
(* dot, digits, anchored at both ends; both "any text" groups are greedy  *)
(***************************************************************************)
\* '.' matches any character but a newline
NoNewline(s, a, b) == \A k \in a..b : s[k] # "\n"

\* \d+ : one or more of 0-9
AllDigits(s, a, b) == a <= b /\ \A k \in a..b : s[k] \in Digits

\* '$' matches at the end of the string and just before a final newline
EndPositions(s) ==
    {Len(s)} \cup (IF Len(s) > 0 /\ s[Len(s)] = "\n" THEN {Len(s) - 1} ELSE {})

\* the ways the pattern matches s: the positions of its four dots
\* and the end of group 5
DotPositions(s) == {k \in 1..Len(s) : s[k] = "."}

Matchings(s) ==
    {m \in [d1 : DotPositions(s), d2 : DotPositions(s), d3 : DotPositions(s),
            d4 : DotPositions(s), e : EndPositions(s)] :
        /\ m.d1 < m.d2 /\ m.d2 < m.d3 /\ m.d3 < m.d4 /\ m.d4 < m.e
        /\ NoNewline(s, 1, m.d1 - 1)
        /\ NoNewline(s, m.d1 + 1, m.d2 - 1)
        /\ AllDigits(s, m.d2 + 1, m.d3 - 1)
        /\ AllDigits(s, m.d3 + 1, m.d4 - 1)
        /\ AllDigits(s, m.d4 + 1, m.e)}

\* the match a backtracking matcher returns: the greedy group 1 is as long
\* as possible, then group 2
ReMatch(s) ==
    LET ms == Matchings(s) IN
    IF ms = {} THEN [matched |-> FALSE, g1 |-> << >>, g2 |-> << >>]
    ELSE LET m == CHOOSE x \in ms : \A y \in ms :
                      \/ y.d1 < x.d1
                      \/ y.d1 = x.d1 /\ y.d2 <= x.d2
         IN [matched |-> TRUE,
             g1 |-> SubSeq(s, 1, m.d1 - 1),
             g2 |-> SubSeq(s, m.d1 + 1, m.d2 - 1)]

(***************************************************************************)
(* float(jf.normalizedinstancehours), as fixed point                       *)
(***************************************************************************)
Scale == 100

RECURSIVE DigitsValue(_)
DigitsValue(s) ==
    IF s = << >> THEN 0
    ELSE 10 * DigitsValue(SubSeq(s, 1, Len(s) - 1)) + DigitVal(s[Len(s)])

\* an unsigned decimal literal with at most two fraction digits
UnsignedOk(s) ==
    \/ AllDigits(s, 1, Len(s))
    \/ \E d \in 2..(Len(s) - 1) :
          /\ s[d] = "."
          /\ AllDigits(s, 1, d - 1)
          /\ AllDigits(s, d + 1, Len(s))
          /\ Len(s) - d <= 2

UnsignedValue(s) ==
    IF AllDigits(s, 1, Len(s)) THEN DigitsValue(s) * Scale
    ELSE LET d == CHOOSE k \in 1..Len(s) : s[k] = "."
             frac == SubSeq(s, d + 1, Len(s))
         IN DigitsValue(SubSeq(s, 1, d - 1)) * Scale
            + (IF Len(frac) = 1 THEN 10 ELSE 1) * DigitsValue(frac)

\* float(None) raises TypeError, float('abc') raises ValueError
FloatOk(v) ==
    /\ ~v.isNone
    /\ Len(v.str) > 0
    /\ IF v.str[1] = "-" THEN UnsignedOk(Tail(v.str)) ELSE UnsignedOk(v.str)

Float(v) ==
    IF v.str[1] = "-" THEN 0 - UnsignedValue(Tail(v.str))
    ELSE UnsignedValue(v.str)

(***************************************************************************)
(* datetime.strptime(jf.creationdatetime, boto.utils.ISO8601) and          *)
(* strftime(ISOISH_TIME_FORMAT), on a table of timestamps                  *)
(***************************************************************************)
TimeTable ==
    << [iso |-> "2010-11-03T12:12:49Z", isoish |-> "2010-11-03 12:12:49"],
       [iso |-> "2010-11-04T08:00:00Z", isoish |-> "2010-11-04 08:00:00"],
       [iso |-> "2010-11-05T00:00:00Z", isoish |-> "2010-11-05 00:00:00"] >>

StrptimeOk(t) == \E k \in DOMAIN TimeTable : TimeTable[k].iso = t

\* a datetime is its rank in the table
Strptime(t) == CHOOSE k \in DOMAIN TimeTable : TimeTable[k].iso = t

Strftime(d) == TimeTable[d].isoish

MinOf(S) == CHOOSE x \in S : \A y \in S : x <= y
MaxOf(S) == CHOOSE x \in S : \A y \in S : y <= x

(***************************************************************************)
(* The provider's answers                                                  *)
(***************************************************************************)
Custom == << "x" >>
JobOfU == << "a", ".", "u", ".", "1", ".", "2", ".", "3" >>
BangJob == << "!", ".", "u", ".", "1", ".", "2", ".", "3" >>
EmptyJob == << ".", "u", ".", "1", ".", "2", ".", "3" >>
EmptyUser == << "a", ".", ".", "1", ".", "2", ".", "3" >>

One == Str(<< "1" >>)
ThreeNinetyNine == Str(<< "3", ".", "9", "9" >>)
MinusThree == Str(<< "-", "3" >>)
NotANumber == Str(<< "a", "b", "c" >>)

T1 == "2010-11-03T12:12:49Z"
T2 == "2010-11-04T08:00:00Z"
BadTime == "yesterday"

JobFlow(i, n, c, h) ==
    [jobflowid |-> i, name |-> n, creationdatetime |-> c,
     normalizedinstancehours |-> h]

\* the job flows the provider may describe
RawJobFlows ==
    {JobFlow(i, Custom, T1, h) : i \in {"j-1", "j-2"}, h \in {One, ThreeNinetyNine}}
    \cup {JobFlow("j-1", JobOfU, T1, h) : h \in {One, ThreeNinetyNine}}
    \cup {JobFlow("j-1", n, T2, One) : n \in {BangJob, EmptyJob, EmptyUser}}
    \cup {JobFlow("j-2", Custom, T2, MinusThree)}
    \cup {JobFlow("j-1", Custom, BadTime, One),
          JobFlow("j-1", Custom, T1, NotANumber),
          JobFlow("j-1", Custom, T1, NoneV)}

SeqsUpTo(S, n) == UNION {[1..k -> S] : k \in 0..n}

Clock == {"2010-11-05T00:00:00Z"}

(***************************************************************************)
(* print_report                                                            *)
(***************************************************************************)
EmptyDict == [k \in {} |-> 0]

Init ==
    /\ provider \in SeqsUpTo(RawJobFlows, MaxFlows)
    /\ pc = "start"
    /\ now = 0
    /\ job_flows = << >>
    /\ idx = 0
    /\ job_flow_infos = << >>
    /\ total_hours = 0
    /\ mr_job_name_to_hours = EmptyDict
    /\ top_jobs = << >>
    /\ user_to_hours = EmptyDict
    /\ top_users = << >>
    /\ top_job_flows = << >>
    /\ out = << >>
    /\ err = "none"

\* a line of standard output: which print statement wrote it and the values
\* it formatted
Line(k, n, i, t, d) == [kind |-> k, num |-> n, id |-> i, text |-> t, time |-> d]
Fixed(k) == Line(k, 0, "", << >>, "")

\* a variant of FormatD: rounds to the nearest integer
FormatDRounds(x) ==
    IF x >= 0 THEN (x + (Scale \div 2)) \div Scale
    ELSE 0 - (((0 - x) + (Scale \div 2)) \div Scale)

\* '%d' % x for a float x: the integer part of x
FormatD(x) == IF x >= 0 THEN x \div Scale ELSE 0 - ((0 - x) \div Scale)

\* lines 75-76, the call returns
DescribeAllJobFlows ==
    /\ pc = "start"
    /\ \E t \in Clock : now' = Strptime(t)
    /\ job_flows' = provider
    /\ idx' = 1
    /\ pc' = "loop"
    /\ UNCHANGED << provider, job_flow_infos, total_hours, mr_job_name_to_hours,
                    top_jobs, user_to_hours, top_users, top_job_flows, out, err >>

\* line 76, the call raises
DescribeAllJobFlowsRaises ==
    /\ pc = "start"
    /\ pc' = "raised"
    /\ err' = "describe_all_job_flows"
    /\ UNCHANGED << provider, now, job_flows, idx, job_flow_infos, total_hours,
                    mr_job_name_to_hours, top_jobs, user_to_hours, top_users,
                    top_job_flows, out >>

\* lines 80-103
JobFlowInfo(jf) ==
    LET match == ReMatch(jf.name) IN
    [id |-> jf.jobflowid,
     name |-> jf.name,
     created |-> Strptime(jf.creationdatetime),
     hours |-> Float(jf.normalizedinstancehours),
     mr_job_name |-> IF match.matched THEN Str(match.g1) ELSE NoneV,
     user |-> IF match.matched THEN Str(match.g2) ELSE NoneV]

\* a variant of LoopBody: writes a line for each job flow as it is read
LoopBodyPrinting ==
    /\ pc = "loop"
    /\ idx <= Len(job_flows)
    /\ StrptimeOk(job_flows[idx].creationdatetime)
    /\ FloatOk(job_flows[idx].normalizedinstancehours)
    /\ job_flow_infos' = Append(job_flow_infos, JobFlowInfo(job_flows[idx]))
    /\ idx' = idx + 1
    /\ out' = Append(out, Line("top job flow",
                                FormatD(Float(job_flows[idx].normalizedinstancehours)),
                                job_flows[idx].jobflowid, job_flows[idx].name, ""))
    /\ UNCHANGED << provider, pc, now, job_flows, total_hours,
                    mr_job_name_to_hours, top_jobs, user_to_hours, top_users,
                    top_job_flows, err >>

\* lines 79-105, one iteration
LoopBody ==
    /\ pc = "loop"
    /\ idx <= Len(job_flows)
    /\ StrptimeOk(job_flows[idx].creationdatetime)
    /\ FloatOk(job_flows[idx].normalizedinstancehours)
    /\ job_flow_infos' = Append(job_flow_infos, JobFlowInfo(job_flows[idx]))
    /\ idx' = idx + 1
    /\ UNCHANGED << provider, pc, now, job_flows, total_hours,
                    mr_job_name_to_hours, top_jobs, user_to_hours, top_users,
                    top_job_flows, out, err >>

\* lines 86-87, strptime raises ValueError
StrptimeRaises ==
    /\ pc = "loop"
    /\ idx <= Len(job_flows)
    /\ ~StrptimeOk(job_flows[idx].creationdatetime)
    /\ pc' = "raised"
    /\ err' = "strptime"
    /\ UNCHANGED << provider, now, job_flows, idx, job_flow_infos, total_hours,
                    mr_job_name_to_hours, top_jobs, user_to_hours, top_users,
                    top_job_flows, out >>

\* line 91, float raises ValueError or TypeError
FloatRaises ==
    /\ pc = "loop"
    /\ idx <= Len(job_flows)
    /\ StrptimeOk(job_flows[idx].creationdatetime)
    /\ ~FloatOk(job_flows[idx].normalizedinstancehours)
    /\ pc' = "raised"
    /\ err' = "float"
    /\ UNCHANGED << provider, now, job_flows, idx, job_flow_infos, total_hours,
                    mr_job_name_to_hours, top_jobs, user_to_hours, top_users,
                    top_job_flows, out >>

\* a variant of NoJobFlows: without the return, min() of line 111 raises
NoJobFlowsNoReturn ==
    /\ pc = "loop"
    /\ idx > Len(job_flows)
    /\ job_flow_infos = << >>
    /\ out' = Append(out, Fixed("No job flows created in the past two months!"))
    /\ pc' = "raised"
    /\ err' = "min"
    /\ UNCHANGED << provider, now, job_flows, idx, job_flow_infos, total_hours,
                    mr_job_name_to_hours, top_jobs, user_to_hours, top_users,
                    top_job_flows >>

\* lines 107-109
NoJobFlows ==
    /\ pc = "loop"
    /\ idx > Len(job_flows)
    /\ job_flow_infos = << >>
    /\ out' = Append(out, Fixed("No job flows created in the past two months!"))
    /\ pc' = "done"
    /\ UNCHANGED << provider, now, job_flows, idx, job_flow_infos, total_hours,
                    mr_job_name_to_hours, top_jobs, user_to_hours, top_users,
                    top_job_flows, err >>

\* a variant of HeaderLines: the first and the last record's creation time
HeaderLinesFirstLast(infos, t) ==
    << Line("Total # of Job Flows", Len(infos), "", << >>, ""),
       Fixed(""),
       Fixed("All times are in UTC"),
       Fixed(""),
       Line("Min create time", 0, "", << >>, Strftime(infos[1].created)),
       Line("Max create time", 0, "", << >>, Strftime(infos[Len(infos)].created)),
       Line("Current time", 0, "", << >>, Strftime(t)),
       Fixed(""),
       Fixed("All usage is measured in Normalized Instance Hours, which are"),
       Fixed("roughly equivalent to running an m1.small instance for an hour"),
       Fixed("") >>

\* lines 111-133
HeaderLines(infos, t) ==
    LET created == {infos[k].created : k \in DOMAIN infos} IN
    << Line("Total # of Job Flows", Len(infos), "", << >>, ""),
       Fixed(""),
       Fixed("All times are in UTC"),
       Fixed(""),
       Line("Min create time", 0, "", << >>, Strftime(MinOf(created))),
       Line("Max create time", 0, "", << >>, Strftime(MaxOf(created))),
       Line("Current time", 0, "", << >>, Strftime(t)),
       Fixed(""),
       Fixed("All usage is measured in Normalized Instance Hours, which are"),
       Fixed("roughly equivalent to running an m1.small instance for an hour"),
       Fixed("") >>

PrintHeader ==
    /\ pc = "loop"
    /\ idx > Len(job_flows)
    /\ job_flow_infos # << >>
    /\ out' = out \o HeaderLines(job_flow_infos, now)
    /\ pc' = "total"
    /\ UNCHANGED << provider, now, job_flows, idx, job_flow_infos, total_hours,
                    mr_job_name_to_hours, top_jobs, user_to_hours, top_users,
                    top_job_flows, err >>

\* line 136
RECURSIVE SumHours(_)
SumHours(infos) ==
    IF infos = << >> THEN 0
    ELSE SumHours(SubSeq(infos, 1, Len(infos) - 1)) + infos[Len(infos)].hours

\* lines 137-138
TotalLines(total) ==
    << Line("Total Usage", FormatD(total), "", << >>, ""), Fixed("") >>

PrintTotal ==
    /\ pc = "total"
    /\ total_hours' = SumHours(job_flow_infos)
    /\ out' = out \o TotalLines(total_hours')
    /\ pc' = "jobs"
    /\ UNCHANGED << provider, now, job_flows, idx, job_flow_infos,
                    mr_job_name_to_hours, top_jobs, user_to_hours, top_users,
                    top_job_flows, err >>

\* lines 140-144: '' is false like None
Placeholder ==
    << "(", "n", "o", "t", " ", "s", "t", "a", "r", "t", "e", "d", " ",
       "b", "y", " ", "m", "r", "j", "o", "b", ")" >>

fmt(mr_job_name_or_user) ==
    IF ~mr_job_name_or_user.isNone /\ mr_job_name_or_user.str # << >>
    THEN mr_job_name_or_user.str
    ELSE Placeholder

\* a variant of DictAdd: = in place of +=
DictAddOverwrites(d, k, h) ==
    IF k \in DOMAIN d THEN [d EXCEPT ![k] = h] ELSE d @@ (k :> h)

\* lines 148-150 and 158-160: defaultdict(float) and +=
DictAdd(d, k, h) ==
    IF k \in DOMAIN d THEN [d EXCEPT ![k] = @ + h] ELSE d @@ (k :> (0 + h))

RECURSIVE HoursBy(_, _)
HoursBy(infos, field) ==
    IF infos = << >> THEN EmptyDict
    ELSE LET info == infos[Len(infos)]
         IN DictAdd(HoursBy(SubSeq(infos, 1, Len(infos) - 1), field),
                    info[field], info.hours)

\* d.iteritems(): the (key, value) pairs in the order of the hash table,
\* here some order
IterItems(d) ==
    LET n == Cardinality(DOMAIN d)
        order == CHOOSE f \in [1..n -> DOMAIN d] :
                     \A a, b \in 1..n : a # b => f[a] # f[b]
    IN [k \in 1..n |-> << order[k], d[order[k]] >>]

\* lines 151-152 and 161-162: sorted(..., key=lambda (n, h): (-h, n))
SortedItems(d) ==
    LET items == IterItems(d) IN
    Items(SortedPairs([k \in DOMAIN items |->
                          << << 0 - items[k][2], items[k][1] >>, items[k] >>]))

\* lines 147, 151-154 and 157, 161-164
GroupLines(title, kind, sorted) ==
    << Fixed(title) >>
    \o [k \in DOMAIN sorted |->
           Line(kind, FormatD(sorted[k][2]), "", fmt(sorted[k][1]), "")]
    \o << Fixed("") >>

TopJobsTitle == "Top jobs (based on which job started the job flow):"
TopUsersTitle == "Top users (based on which user started the job flow):"

\* lines 146-154
PrintTopJobs ==
    /\ pc = "jobs"
    /\ mr_job_name_to_hours' = HoursBy(job_flow_infos, "mr_job_name")
    /\ top_jobs' = SortedItems(mr_job_name_to_hours')
    /\ out' = out \o GroupLines(TopJobsTitle, "top job", top_jobs')
    /\ pc' = "users"
    /\ UNCHANGED << provider, now, job_flows, idx, job_flow_infos, total_hours,
                    user_to_hours, top_users, top_job_flows, err >>

\* lines 156-164
PrintTopUsers ==
    /\ pc = "users"
    /\ user_to_hours' = HoursBy(job_flow_infos, "user")
    /\ top_users' = SortedItems(user_to_hours')
    /\ out' = out \o GroupLines(TopUsersTitle, "top user", top_users')
    /\ pc' = "job flows"
    /\ UNCHANGED << provider, now, job_flows, idx, job_flow_infos, total_hours,
                    mr_job_name_to_hours, top_jobs, top_job_flows, err >>

\* a variant of SortedJobFlows: key=lambda i: -i['hours']
SortedJobFlowsByHours(infos) ==
    Items(SortedPairs([k \in DOMAIN infos |->
                          << << 0 - infos[k].hours, Str(<< >>) >>, infos[k] >>]))

\* lines 168-169: sorted(job_flow_infos, key=lambda i: (-i['hours'], i['name']))
SortedJobFlows(infos) ==
    Items(SortedPairs([k \in DOMAIN infos |->
                          << << 0 - infos[k].hours, Str(infos[k].name) >>,
                             infos[k] >>]))

\* lines 167, 170-172
JobFlowLines(sorted) ==
    << Fixed("Top job flows:") >>
    \o [k \in DOMAIN sorted |->
           Line("top job flow", FormatD(sorted[k].hours), sorted[k].id,
                sorted[k].name, "")]
    \o << Fixed("") >>

\* lines 166-172
PrintTopJobFlows ==
    /\ pc = "job flows"
    /\ top_job_flows' = SortedJobFlows(job_flow_infos)
    /\ out' = out \o JobFlowLines(top_job_flows')
    /\ pc' = "done"
    /\ UNCHANGED << provider, now, job_flows, idx, job_flow_infos, total_hours,
                    mr_job_name_to_hours, top_jobs, user_to_hours, top_users,
                    err >>

Next ==
    \/ DescribeAllJobFlows
    \/ DescribeAllJobFlowsRaises
    \/ LoopBody
    \/ StrptimeRaises
    \/ FloatRaises
    \/ NoJobFlows
    \/ PrintHeader
    \/ PrintTotal
    \/ PrintTopJobs
    \/ PrintTopUsers
    \/ PrintTopJobFlows

Spec == Init /\ [][Next]_vars

(***************************************************************************)
(* Name parsing alone: every short name over a small alphabet, and the     *)
(* names of the documentation                                              *)
(***************************************************************************)
NameChars == {"a", ".", "1", "\n"}

MrWordFreqCount ==
    << "m", "r", "_", "w", "o", "r", "d", "_", "f", "r", "e", "q", "_",
       "c", "o", "u", "n", "t", ".", "d", "a", "v", "e", ".",
       "2", "0", "1", "0", "1", "1", "0", "3", ".",
       "1", "2", "1", "2", "4", "9", ".", "6", "3", "8", "5", "5", "2" >>
MyCustomCluster ==
    << "m", "y", "-", "c", "u", "s", "t", "o", "m", "-",
       "c", "l", "u", "s", "t", "e", "r" >>
DottedJob ==
    << "a", ".", "a", ".", "u", ".", "1", ".", "2", ".", "3" >>

Names == SeqsUpTo(NameChars, MaxNameLen)
             \cup {MrWordFreqCount, MyCustomCluster, DottedJob}

InitNames ==
    /\ provider \in {<< JobFlow("j-1", n, T1, One) >> : n \in Names}
    /\ pc = "start"
    /\ now = 0
    /\ job_flows = << >>
    /\ idx = 0
    /\ job_flow_infos = << >>
    /\ total_hours = 0
    /\ mr_job_name_to_hours = EmptyDict
    /\ top_jobs = << >>
    /\ user_to_hours = EmptyDict
    /\ top_users = << >>
    /\ top_job_flows = << >>
    /\ out = << >>
    /\ err = "none"

NextNames == DescribeAllJobFlows \/ LoopBody

SpecNames == InitNames /\ [][NextNames]_vars

(***************************************************************************)
(* The report as a function of the provider's answer (lines 78-172)        *)
(***************************************************************************)
Report(flows, t) ==
    LET infos == [k \in DOMAIN flows |-> JobFlowInfo(flows[k])] IN
    IF infos = << >>
    THEN << Fixed("No job flows created in the past two months!") >>
    ELSE HeaderLines(infos, t)
         \o TotalLines(SumHours(infos))
         \o GroupLines(TopJobsTitle, "top job",
                       SortedItems(HoursBy(infos, "mr_job_name")))
         \o GroupLines(TopUsersTitle, "top user",
                       SortedItems(HoursBy(infos, "user")))
         \o JobFlowLines(SortedJobFlows(infos))

(***************************************************************************)
(* Properties                                                              *)
(***************************************************************************)
Bijections(n) == {f \in [1..n -> 1..n] : \A a, b \in 1..n : a # b => f[a] # f[b]}

Reorderings(s) == {[k \in DOMAIN s |-> s[f[k]]] : f \in Bijections(Len(s))}

LinesOf(kind) == SelectSeq(out, LAMBDA l : l.kind = kind)

RECURSIVE SumOfDict(_)
SumOfDict(d) ==
    IF DOMAIN d = {} THEN 0
    ELSE LET k == CHOOSE x \in DOMAIN d : TRUE
         IN d[k] + SumOfDict([x \in DOMAIN d \ {k} |-> d[x]])

RECURSIVE SumOver(_, _)
SumOver(S, infos) ==
    IF S = {} THEN 0
    ELSE LET k == CHOOSE x \in S : TRUE
         IN infos[k].hours + SumOver(S \ {k}, infos)

\* how far a report of at least one job flow has got
TotalPrinted == job_flow_infos # << >> /\ pc \in {"jobs", "users", "job flows", "done"}
JobsPrinted == job_flow_infos # << >> /\ pc \in {"users", "job flows", "done"}
UsersPrinted == job_flow_infos # << >> /\ pc \in {"job flows", "done"}
JobFlowsPrinted == job_flow_infos # << >> /\ pc = "done"

\* the groups of a field partition the records and their sums add up to
\* the total
PartitionSums(d, field) ==
    /\ SumOfDict(d) = total_hours
    /\ \A k \in DOMAIN job_flow_infos : job_flow_infos[k][field] \in DOMAIN d
    /\ \A g \in DOMAIN d :
          d[g] = SumOver({k \in DOMAIN job_flow_infos :
                             job_flow_infos[k][field] = g}, job_flow_infos)

\* C1: the hour sums of the 'Top jobs' groups add up to the total usage
\* sum of the 'Total Usage' line, every record being counted in exactly one
\* group; the same for the 'Top users' groups.
C1_GroupSumsAddUp ==
    /\ JobsPrinted => PartitionSums(mr_job_name_to_hours, "mr_job_name")
    /\ UsersPrinted => PartitionSums(user_to_hours, "user")

C1_Witness ==
    /\ pc = "done"
    /\ Len(job_flow_infos) = 3
    /\ Cardinality(DOMAIN mr_job_name_to_hours) = 2
    /\ Cardinality(DOMAIN user_to_hours) = 2
    /\ total_hours = 3 * 399

\* the parse the documentation describes: split at the dots
MaxIn(S) == CHOOSE x \in S : \A y \in S : y <= x

DocumentedParse(s) ==
    LET D == DotPositions(s) IN
    IF Cardinality(D) < 4 THEN [job |-> NoneV, user |-> NoneV]
    ELSE LET d4 == MaxIn(D)
             d3 == MaxIn(D \ {d4})
             d2 == MaxIn(D \ {d4, d3})
             d1 == MaxIn(D \ {d4, d3, d2})
         IN IF /\ AllDigits(s, d4 + 1, Len(s))
               /\ AllDigits(s, d3 + 1, d4 - 1)
               /\ AllDigits(s, d2 + 1, d3 - 1)
            THEN [job |-> Str(SubSeq(s, 1, d1 - 1)),
                  user |-> Str(SubSeq(s, d1 + 1, d2 - 1))]
            ELSE [job |-> NoneV, user |-> NoneV]

\* C2: a name with at least four dots whose last three dot-separated
\* components are digit strings gives user = the component before them and
\* jobName = everything before the dot preceding user; every other name
\* gives both unset.
C2_NameParsing ==
    \A k \in DOMAIN job_flow_infos :
        LET info == job_flow_infos[k] IN
        /\ info.mr_job_name = DocumentedParse(info.name).job
        /\ info.user = DocumentedParse(info.name).user

\* C2, the part that holds: jobName and user are both set or both unset,
\* and a name without a newline is parsed as documented
C2_WithoutNewline ==
    \A k \in DOMAIN job_flow_infos :
        LET info == job_flow_infos[k] IN
        /\ info.mr_job_name.isNone <=> info.user.isNone
        /\ NoNewline(info.name, 1, Len(info.name)) =>
              /\ info.mr_job_name = DocumentedParse(info.name).job
              /\ info.user = DocumentedParse(info.name).user

\* lexicographic order of two strings, by their first difference
RECURSIVE LexBefore(_, _)
LexBefore(a, b) ==
    IF a = << >> THEN b # << >>
    ELSE IF b = << >> THEN FALSE
    ELSE IF Head(a) = Head(b) THEN LexBefore(Tail(a), Tail(b))
    ELSE Ord(Head(a)) < Ord(Head(b))

\* descending hours, and groups of equal hours in ascending order of the
\* label their lines display
LabelOrdered(items, lines) ==
    /\ Len(lines) = Len(items)
    /\ \A i, j \in DOMAIN items :
          i < j =>
             \/ items[i][2] > items[j][2]
             \/ /\ items[i][2] = items[j][2]
                /\ ~LexBefore(lines[j].text, lines[i].text)

\* C3 as stated: group lines in descending order of summed hours, groups of
\* equal hours in ascending order of their displayed label, the unset group
\* compared as '(not started by mrjob)'.
C3_TieBreakByLabel ==
    /\ JobsPrinted => LabelOrdered(top_jobs, LinesOf("top job"))
    /\ UsersPrinted => LabelOrdered(top_users, LinesOf("top user"))

\* descending hours, and groups of equal hours with the unset group first
\* and the others in ascending order of their key
KeyOrdered(items, lines) ==
    /\ Len(lines) = Len(items)
    /\ \A i, j \in DOMAIN items :
          i < j =>
             \/ items[i][2] > items[j][2]
             \/ /\ items[i][2] = items[j][2]
                /\ ~items[j][1].isNone
                /\ \/ items[i][1].isNone
                   \/ LexBefore(items[i][1].str, items[j][1].str)

\* C3 amended: group lines in descending order of summed hours; among groups
\* of equal hours the unset group comes first and the others follow in
\* ascending order of their jobName (user) string.
C3_TieBreakByKey ==
    /\ JobsPrinted => KeyOrdered(top_jobs, LinesOf("top job"))
    /\ UsersPrinted => KeyOrdered(top_users, LinesOf("top user"))

\* the unset group ties with a group whose label sorts before '('
C3_Witness ==
    /\ pc = "done"
    /\ \E i, j \in DOMAIN top_jobs :
          /\ i < j
          /\ top_jobs[i][2] = top_jobs[j][2]
          /\ top_jobs[i][1].isNone
          /\ LexBefore(top_jobs[j][1].str, Placeholder)
          /\ top_jobs[j][1].str # << >>
    /\ \E i, j \in DOMAIN top_users :
          /\ i < j
          /\ top_users[i][2] = top_users[j][2]
          /\ ~top_users[i][1].isNone

\* C4: when the list call fails or an entry cannot be parsed, the run ends
\* with that error and nothing has been written to standard output; every
\* entry is normalized before the first line is written.
C4_NoPartialReport ==
    /\ pc = "raised" => out = << >> /\ err # "none"
    /\ out # << >> => /\ Len(job_flow_infos) = Len(job_flows)
                      /\ job_flows = provider
                      /\ err = "none"

\* the third entry is the one that cannot be parsed
C4_Witness ==
    /\ pc = "raised"
    /\ err \in {"float", "strptime"}
    /\ idx = 3
    /\ Len(job_flow_infos) = 2

\* C5: every record that reaches the aggregation step has
\* normalizedHours >= 0, a usage value that is no non-negative number
\* having ended the run.
C5_HoursNonNegative ==
    \A k \in DOMAIN job_flow_infos : job_flow_infos[k].hours >= 0

\* C6: when the provider returns no cluster the output is the single
\* 'no job flows' line and the run ends without error.
C6_EmptyInput ==
    (provider = << >> /\ pc # "start" /\ err # "describe_all_job_flows") =>
        /\ err = "none"
        /\ pc \in {"loop", "done"}
        /\ pc = "loop" => out = << >>
        /\ pc = "done" =>
              out = << Fixed("No job flows created in the past two months!") >>

C6_Witness ==
    /\ provider = << >>
    /\ pc = "done"
    /\ Len(out) = 1

\* n is x without its fraction
Truncates(n, x) ==
    /\ x >= 0 => n * Scale <= x /\ x < (n + 1) * Scale
    /\ x < 0 => (n - 1) * Scale < x /\ x <= n * Scale

\* C7: every hours figure of the report is the underlying value truncated
\* toward zero; 3.99 hours show as 3.
C7_Truncation ==
    /\ TotalPrinted =>
          /\ Len(LinesOf("Total Usage")) = 1
          /\ Truncates(LinesOf("Total Usage")[1].num, SumHours(job_flow_infos))
    /\ JobsPrinted =>
          /\ Len(LinesOf("top job")) = Len(top_jobs)
          /\ \A k \in DOMAIN top_jobs :
                Truncates(LinesOf("top job")[k].num, top_jobs[k][2])
    /\ UsersPrinted =>
          /\ Len(LinesOf("top user")) = Len(top_users)
          /\ \A k \in DOMAIN top_users :
                Truncates(LinesOf("top user")[k].num, top_users[k][2])
    /\ JobFlowsPrinted =>
          /\ Len(LinesOf("top job flow")) = Len(top_job_flows)
          /\ \A k \in DOMAIN top_job_flows :
                /\ Truncates(LinesOf("top job flow")[k].num,
                             top_job_flows[k].hours)
                /\ top_job_flows[k].hours = 399 =>
                      LinesOf("top job flow")[k].num = 3

\* one record of 3.99 hours alone in its job group and alone in the report
C7_Witness ==
    /\ pc = "done"
    /\ Len(job_flow_infos) = 1
    /\ job_flow_infos[1].hours = 399
    /\ LinesOf("Total Usage")[1].num = 3
    /\ LinesOf("top job")[1].num = 3
    /\ LinesOf("top user")[1].num = 3
    /\ LinesOf("top job flow")[1].num = 3

\* the placeholder is on one line when a record has the field unset and on
\* none otherwise, with the hours of exactly those records
PlaceholderLine(kind, field) ==
    LET unset == {k \in DOMAIN job_flow_infos : job_flow_infos[k][field].isNone}
        lines == SelectSeq(LinesOf(kind), LAMBDA l : l.text = Placeholder)
    IN /\ Len(lines) = IF unset = {} THEN 0 ELSE 1
       /\ \A i \in DOMAIN lines :
             lines[i].num = FormatD(SumOver(unset, job_flow_infos))

\* C8: '(not started by mrjob)' is on exactly one 'Top jobs' line when some
\* record has jobName unset and on none otherwise, with the hours of the
\* records whose name did not match; the same in 'Top users'.
C8_PlaceholderGroup ==
    /\ JobsPrinted => PlaceholderLine("top job", "mr_job_name")
    /\ UsersPrinted => PlaceholderLine("top user", "user")

\* C9: 'Top job flows' has one line per record, none dropped or duplicated,
\* in descending order of hours and, for equal hours, ascending order of
\* name; each line carries its record's id and name.
C9_TopJobFlows ==
    JobFlowsPrinted =>
        LET lines == LinesOf("top job flow") IN
        /\ Len(lines) = Len(job_flow_infos)
        /\ \E f \in Bijections(Len(job_flow_infos)) :
              \A k \in DOMAIN job_flow_infos :
                  top_job_flows[k] = job_flow_infos[f[k]]
        /\ \A i, j \in DOMAIN top_job_flows :
              i < j =>
                 \/ top_job_flows[i].hours > top_job_flows[j].hours
                 \/ /\ top_job_flows[i].hours = top_job_flows[j].hours
                    /\ ~LexBefore(top_job_flows[j].name, top_job_flows[i].name)
        /\ \A k \in DOMAIN lines :
              /\ lines[k].id = top_job_flows[k].id
              /\ lines[k].text = top_job_flows[k].name

\* two records with the same id and name, and a tie in hours between
\* records returned in descending order of name
C9_Witness ==
    /\ pc = "done"
    /\ Len(job_flow_infos) = 3
    /\ job_flow_infos[1].id = job_flow_infos[3].id
    /\ job_flow_infos[1].name = job_flow_infos[3].name
    /\ job_flow_infos[1].hours = job_flow_infos[2].hours
    /\ LexBefore(job_flow_infos[2].name, job_flow_infos[1].name)

\* C10 as stated: any two permutations of the record list give the same
\* report lines.
C10_OrderIndependent ==
    pc = "done" => \A p \in Reorderings(provider) : Report(p, now) = out

\* two records of different ids with equal hours and equal name
Twins(infos) ==
    \E i, j \in DOMAIN infos :
        /\ infos[i].hours = infos[j].hours
        /\ infos[i].name = infos[j].name
        /\ infos[i].id # infos[j].id

WithoutJobFlowLines(lines) == SelectSeq(lines, LAMBDA l : l.kind # "top job flow")

\* C10 amended: every line of the report but the 'Top job flows' lines is
\* the same for any two permutations of the record list, and so are the
\* 'Top job flows' lines unless two records of different ids have equal
\* hours and equal name (these are listed in the order returned).
C10_OrderIndependentButTwins ==
    pc = "done" =>
        \A p \in Reorderings(provider) :
            /\ WithoutJobFlowLines(Report(p, now)) = WithoutJobFlowLines(out)
            /\ ~Twins(job_flow_infos) => Report(p, now) = out

C10_Witness ==
    /\ pc = "done"
    /\ Len(job_flow_infos) = 3
    /\ Twins(job_flow_infos)
    /\ \E p \in Reorderings(provider) : Report(p, now) # out

====
